---- MODULE Spec2Model ----
(***************************************************************************)
(* Payload extractors of actix-web (src/types/payload.rs):                 *)
(*   - PayloadConfig  (limit, required mime type, lookup in app data)      *)
(*   - HttpMessageBody (the body aggregator future: new / limit / poll)    *)
(*   - FromRequest for Payload, Bytes and String, StringExtractFut and     *)
(*     bytes_to_string.                                                    *)
(* The build modelled is the one without the "compress" feature: the       *)
(* aggregator's stream is the request's dev::Payload itself.               *)
(***************************************************************************)
EXTENDS Integers, Sequences, FiniteSets, TLC

VARIABLES
    req,      \* the HttpRequest: headers and app data (never written)
    items,    \* everything the transport will deliver, in order (never written)
    arrived,  \* how many of them have arrived (Len(items)+1: end of stream too)
    pos,      \* how many items have been pulled out of the chunk source
    payload,  \* the request's dev::Payload handle: "Stream" or "None"
    futs      \* the futures made by from_request / HttpMessageBody::new

vars == <<req, items, arrived, pos, payload, futs>>

----------------------------------------------------------------------------
(* Bounds of the model *)

MaxLen == 3        \* total number of body bytes
MaxFuts == 2       \* extractions made on one request
MaxLimitCalls == 2 \* calls of HttpMessageBody::limit by the application
MaxRepoll == 1     \* polls of futures that have returned Ready before

----------------------------------------------------------------------------
(* Values *)

DEFAULT_CONFIG_LIMIT == 262144

\* Option<T>: no element or one
None == <<>>
Some(x) == <<x>>
IsSome(o) == Len(o) = 1
Unwrap(o) == o[1]

Pending == [tag |-> "Pending", val |-> <<>>, err |-> "none"]
Ok(b) == [tag |-> "Ok", val |-> b, err |-> "none"]
Err(e) == [tag |-> "Err", val |-> <<>>, err |-> e]

Data(b) == [type |-> "data", bytes |-> b, e |-> "none"]
Fail(e) == [type |-> "err", bytes |-> <<>>, e |-> e]

\* the bytes of the enumerated streams: the UTF-8 form of U+00E9 is 195 169
\* (the streams picked by hand also hold 97, the letter a)
ByteSet == {195, 169}
TransportErrors == {"Incomplete", "Io"}

\* the concatenation of the data chunks among the first k items of s
RECURSIVE Concat(_, _)
Concat(s, k) ==
    IF k = 0 THEN <<>>
    ELSE Concat(s, k - 1) \o s[k].bytes

----------------------------------------------------------------------------
(* The request's metadata, as its collaborators report it *)

UTF_8 == "utf-8"
UTF_16LE == "utf-16le"

Mime(essence, charset) == [essence |-> essence, charset |-> charset]
APPLICATION_JSON == Mime("application/json", "none")

\* HttpMessage::mime_type: Ok(None) without a Content-Type header, an error
\* for a header that is no media type, Ok(Some(mime)) otherwise
mime_type(r) ==
    IF r.content_type.state = "absent" THEN Ok(None)
    ELSE IF r.content_type.state = "malformed" THEN Err("ContentTypeError::ParseError")
    ELSE Ok(Some(r.content_type.mime))

\* HttpMessage::encoding: the charset parameter of the media type, UTF-8
\* when there is none, an error for a label that names no encoding
encoding(r) ==
    LET mt == mime_type(r) IN
    IF mt.tag = "Err" THEN mt
    ELSE IF ~IsSome(mt.val) THEN Ok(UTF_8)
    ELSE LET cs == Unwrap(mt.val).charset IN
         IF cs = "none" THEN Ok(UTF_8)
         ELSE IF cs \in {UTF_8, UTF_16LE} THEN Ok(cs)
         ELSE Err("ContentTypeError::UnknownEncoding")

----------------------------------------------------------------------------
(* PayloadConfig *)

PayloadConfig(limit, mimetype) == [limit |-> limit, mimetype |-> mimetype]

DEFAULT_CONFIG == PayloadConfig(DEFAULT_CONFIG_LIMIT, None)

\* check_mimetype, but a request without Content-Type passes
check_mimetype_lenient(self, r) ==
    IF IsSome(self.mimetype) THEN
        LET mt == Unwrap(self.mimetype)
            res == mime_type(r) IN
        IF res.tag = "Ok" /\ IsSome(res.val) THEN
            IF mt # Unwrap(res.val)
            THEN Err("BadRequest: Unexpected Content-Type")
            ELSE Ok(<<>>)
        ELSE IF res.tag = "Ok" THEN Ok(<<>>)
        ELSE Err(res.err)
    ELSE Ok(<<>>)

check_mimetype(self, r) ==
    IF IsSome(self.mimetype) THEN
        LET mt == Unwrap(self.mimetype)
            res == mime_type(r) IN
        IF res.tag = "Ok" /\ IsSome(res.val) THEN
            IF mt # Unwrap(res.val)
            THEN Err("BadRequest: Unexpected Content-Type")
            ELSE Ok(<<>>)
        ELSE IF res.tag = "Ok" THEN Err("BadRequest: Content-Type is expected")
        ELSE Err(res.err)
    ELSE Ok(<<>>)

\* from_req, but Data<PayloadConfig> is looked up first
from_req_data_first(r) ==
    IF IsSome(r.data) THEN Unwrap(r.data)
    ELSE IF IsSome(r.app_data) THEN Unwrap(r.app_data)
    ELSE DEFAULT_CONFIG

\* req.app_data::<PayloadConfig>(), then req.app_data::<Data<PayloadConfig>>(),
\* then the default
from_req(r) ==
    IF IsSome(r.app_data) THEN Unwrap(r.app_data)
    ELSE IF IsSome(r.data) THEN Unwrap(r.data)
    ELSE DEFAULT_CONFIG

----------------------------------------------------------------------------
(* The Content-Length header: HeaderValue::to_str and str::parse::<usize> *)

Digits == <<"0", "1", "2", "3", "4", "5", "6", "7", "8", "9">>

IsDigit(c) == \E i \in 1..10 : Digits[i] = c
DigitVal(c) == (CHOOSE i \in 1..10 : Digits[i] = c) - 1

\* to_str fails on a value with a byte that is not visible ASCII ("OBS")
to_str(l) ==
    IF \E i \in 1..Len(l) : l[i] = "OBS" THEN Err("ToStrError") ELSE Ok(l)

RECURSIVE ParseDigits(_, _)
ParseDigits(s, acc) ==
    IF s = <<>> THEN Ok(acc)
    ELSE IF ~IsDigit(Head(s)) THEN Err("InvalidDigit")
    ELSE ParseDigits(Tail(s), acc * 10 + DigitVal(Head(s)))

\* an optional "+", then one digit or more (the values of the model stay
\* far below usize::MAX)
parse_usize(s) ==
    IF s = <<>> THEN Err("Empty")
    ELSE IF Head(s) \in {"+", "-"} /\ Tail(s) = <<>> THEN Err("InvalidDigit")
    ELSE IF Head(s) = "+" THEN ParseDigits(Tail(s), 0)
    ELSE ParseDigits(s, 0)

----------------------------------------------------------------------------
(* dev::Payload *)

\* Payload::take: the handle's stream moves to the caller, the handle is
\* left as Payload::None
take(p) == [taken |-> p, left |-> "None"]

\* poll_next of the stream a holder has, when p items were pulled before:
\* Payload::None is at its end at once; the real stream yields the next
\* item that has arrived, its end once that has arrived, Pending otherwise
poll_next(stream, p) ==
    IF stream = "None" THEN [tag |-> "None", item |-> Data(<<>>)]
    ELSE IF p < Len(items) THEN
        IF p < arrived THEN [tag |-> "Some", item |-> items[p + 1]]
        ELSE [tag |-> "Pending", item |-> Data(<<>>)]
    ELSE IF arrived > Len(items) THEN [tag |-> "None", item |-> Data(<<>>)]
    ELSE [tag |-> "Pending", item |-> Data(<<>>)]

----------------------------------------------------------------------------
(* HttpMessageBody *)

\* new, but a declared length above the default latches nothing
HttpMessageBody_new_unarmed(r, pl) ==
    LET l == r.content_length
        hdr == IF IsSome(l) THEN to_str(Unwrap(l)) ELSE Err("absent")
        num == IF hdr.tag = "Ok" THEN parse_usize(hdr.val) ELSE Err("none")
        length == IF num.tag = "Ok" THEN Some(num.val) ELSE None
        err == IF ~IsSome(l) \/ num.tag = "Ok" THEN None ELSE Some("UnknownLength")
        t == take(pl)
    IN [body |-> [stream |-> t.taken,
                  limit |-> DEFAULT_CONFIG_LIMIT,
                  length |-> length,
                  buf |-> <<>>,
                  err |-> err],
        payload |-> t.left]

\* new, but the source stays in the caller's handle when an error is latched
HttpMessageBody_new_keeps_source(r, pl) ==
    LET l == r.content_length
        hdr == IF IsSome(l) THEN to_str(Unwrap(l)) ELSE Err("absent")
        num == IF hdr.tag = "Ok" THEN parse_usize(hdr.val) ELSE Err("none")
        length == IF num.tag = "Ok" THEN Some(num.val) ELSE None
        err == IF ~IsSome(l) THEN None
               ELSE IF num.tag = "Ok" THEN
                    IF num.val > DEFAULT_CONFIG_LIMIT THEN Some("Overflow") ELSE None
               ELSE Some("UnknownLength")
        t == IF IsSome(err) THEN [taken |-> "None", left |-> pl] ELSE take(pl)
    IN [body |-> [stream |-> t.taken,
                  limit |-> DEFAULT_CONFIG_LIMIT,
                  length |-> length,
                  buf |-> <<>>,
                  err |-> err],
        payload |-> t.left]

\* the aggregator and what is left in the caller's payload handle
HttpMessageBody_new(r, pl) ==
    LET l == r.content_length
        hdr == IF IsSome(l) THEN to_str(Unwrap(l)) ELSE Err("absent")
        num == IF hdr.tag = "Ok" THEN parse_usize(hdr.val) ELSE Err("none")
        length == IF num.tag = "Ok" THEN Some(num.val) ELSE None
        err == IF ~IsSome(l) THEN None
               ELSE IF num.tag = "Ok" THEN
                    IF num.val > DEFAULT_CONFIG_LIMIT THEN Some("Overflow") ELSE None
               ELSE Some("UnknownLength")
        t == take(pl)
    IN [body |-> [stream |-> t.taken,
                  limit |-> DEFAULT_CONFIG_LIMIT,
                  length |-> length,
                  buf |-> <<>>,
                  err |-> err],
        payload |-> t.left]

\* limit, but the latch is written also when no length is known
HttpMessageBody_limit_replaces(self, limit) ==
    [self EXCEPT
        !.err = IF IsSome(self.length) /\ Unwrap(self.length) > limit
                THEN Some("Overflow") ELSE None,
        !.limit = limit]

\* limit, but a latch is never cleared
HttpMessageBody_limit_keeps(self, limit) ==
    [self EXCEPT
        !.err = IF IsSome(self.length) /\ Unwrap(self.length) > limit
                THEN Some("Overflow") ELSE @,
        !.limit = limit]

HttpMessageBody_limit(self, limit) ==
    [self EXCEPT
        !.err = IF IsSome(self.length)
                THEN IF Unwrap(self.length) > limit THEN Some("Overflow") ELSE None
                ELSE @,
        !.limit = limit]

\* the loop of poll, but a chunk that lands on the limit is refused
RECURSIVE poll_loop_inclusive(_, _)
poll_loop_inclusive(this, p) ==
    LET res == poll_next(this.stream, p) IN
    IF res.tag = "Pending" THEN [this |-> this, pos |-> p, out |-> Pending]
    ELSE IF res.tag = "Some" THEN
        IF res.item.type = "err"
        THEN [this |-> this, pos |-> p + 1, out |-> Err(res.item.e)]
        ELSE IF Len(this.buf) + Len(res.item.bytes) >= this.limit
        THEN [this |-> this, pos |-> p + 1, out |-> Err("Overflow")]
        ELSE poll_loop_inclusive([this EXCEPT !.buf = @ \o res.item.bytes], p + 1)
    ELSE [this |-> [this EXCEPT !.buf = <<>>], pos |-> p, out |-> Ok(this.buf)]

\* the loop of poll, but the limit is compared with the bytes buffered
\* before the chunk
RECURSIVE poll_loop_late(_, _)
poll_loop_late(this, p) ==
    LET res == poll_next(this.stream, p) IN
    IF res.tag = "Pending" THEN [this |-> this, pos |-> p, out |-> Pending]
    ELSE IF res.tag = "Some" THEN
        IF res.item.type = "err"
        THEN [this |-> this, pos |-> p + 1, out |-> Err(res.item.e)]
        ELSE IF Len(this.buf) > this.limit
        THEN [this |-> this, pos |-> p + 1, out |-> Err("Overflow")]
        ELSE poll_loop_late([this EXCEPT !.buf = @ \o res.item.bytes], p + 1)
    ELSE [this |-> [this EXCEPT !.buf = <<>>], pos |-> p, out |-> Ok(this.buf)]

\* the loop of poll, but it returns Pending after one chunk
RECURSIVE poll_loop_single(_, _)
poll_loop_single(this, p) ==
    LET res == poll_next(this.stream, p) IN
    IF res.tag = "Pending" THEN [this |-> this, pos |-> p, out |-> Pending]
    ELSE IF res.tag = "Some" THEN
        IF res.item.type = "err"
        THEN [this |-> this, pos |-> p + 1, out |-> Err(res.item.e)]
        ELSE IF Len(this.buf) + Len(res.item.bytes) > this.limit
        THEN [this |-> this, pos |-> p + 1, out |-> Err("Overflow")]
        ELSE [this |-> [this EXCEPT !.buf = @ \o res.item.bytes], pos |-> p + 1,
              out |-> Pending]
    ELSE [this |-> [this EXCEPT !.buf = <<>>], pos |-> p, out |-> Ok(this.buf)]

\* the loop of poll, but a failed item that finds the buffer at the limit
\* is reported as Overflow
RECURSIVE poll_loop_full_buffer(_, _)
poll_loop_full_buffer(this, p) ==
    LET res == poll_next(this.stream, p) IN
    IF res.tag = "Pending" THEN [this |-> this, pos |-> p, out |-> Pending]
    ELSE IF res.tag = "Some" THEN
        IF res.item.type = "err"
        THEN [this |-> this, pos |-> p + 1,
              out |-> IF Len(this.buf) >= this.limit THEN Err("Overflow")
                      ELSE Err(res.item.e)]
        ELSE IF Len(this.buf) + Len(res.item.bytes) > this.limit
        THEN [this |-> this, pos |-> p + 1, out |-> Err("Overflow")]
        ELSE poll_loop_full_buffer([this EXCEPT !.buf = @ \o res.item.bytes], p + 1)
    ELSE [this |-> [this EXCEPT !.buf = <<>>], pos |-> p, out |-> Ok(this.buf)]

\* the loop of poll, but a chunk is put in front of the buffer
RECURSIVE poll_loop_prepend(_, _)
poll_loop_prepend(this, p) ==
    LET res == poll_next(this.stream, p) IN
    IF res.tag = "Pending" THEN [this |-> this, pos |-> p, out |-> Pending]
    ELSE IF res.tag = "Some" THEN
        IF res.item.type = "err"
        THEN [this |-> this, pos |-> p + 1, out |-> Err(res.item.e)]
        ELSE IF Len(this.buf) + Len(res.item.bytes) > this.limit
        THEN [this |-> this, pos |-> p + 1, out |-> Err("Overflow")]
        ELSE poll_loop_prepend([this EXCEPT !.buf = res.item.bytes \o @], p + 1)
    ELSE [this |-> [this EXCEPT !.buf = <<>>], pos |-> p, out |-> Ok(this.buf)]

\* the loop of poll, but the end of a stream that yielded items is taken
\* for Pending
RECURSIVE poll_loop_stuck(_, _)
poll_loop_stuck(this, p) ==
    LET res == poll_next(this.stream, p) IN
    IF res.tag = "Pending" THEN [this |-> this, pos |-> p, out |-> Pending]
    ELSE IF res.tag = "Some" THEN
        IF res.item.type = "err"
        THEN [this |-> this, pos |-> p + 1, out |-> Err(res.item.e)]
        ELSE IF Len(this.buf) + Len(res.item.bytes) > this.limit
        THEN [this |-> this, pos |-> p + 1, out |-> Err("Overflow")]
        ELSE poll_loop_stuck([this EXCEPT !.buf = @ \o res.item.bytes], p + 1)
    ELSE IF p > 0 THEN [this |-> this, pos |-> p, out |-> Pending]
         ELSE [this |-> [this EXCEPT !.buf = <<>>], pos |-> p, out |-> Ok(this.buf)]

\* the loop of poll, but the chunk is appended before the limit is checked
RECURSIVE poll_loop_appends_first(_, _)
poll_loop_appends_first(this, p) ==
    LET res == poll_next(this.stream, p) IN
    IF res.tag = "Pending" THEN [this |-> this, pos |-> p, out |-> Pending]
    ELSE IF res.tag = "Some" THEN
        IF res.item.type = "err"
        THEN [this |-> this, pos |-> p + 1, out |-> Err(res.item.e)]
        ELSE IF Len(this.buf) + Len(res.item.bytes) > this.limit
        THEN [this |-> [this EXCEPT !.buf = @ \o res.item.bytes], pos |-> p + 1, out |-> Err("Overflow")]
        ELSE poll_loop_appends_first([this EXCEPT !.buf = @ \o res.item.bytes], p + 1)
    ELSE [this |-> [this EXCEPT !.buf = <<>>], pos |-> p, out |-> Ok(this.buf)]

\* the loop of poll, but the declared length bounds the body as well
RECURSIVE poll_loop_declared(_, _)
poll_loop_declared(this, p) ==
    LET res == poll_next(this.stream, p) IN
    IF res.tag = "Pending" THEN [this |-> this, pos |-> p, out |-> Pending]
    ELSE IF res.tag = "Some" THEN
        IF res.item.type = "err"
        THEN [this |-> this, pos |-> p + 1, out |-> Err(res.item.e)]
        ELSE IF \/ Len(this.buf) + Len(res.item.bytes) > this.limit
                \/ /\ IsSome(this.length)
                   /\ Len(this.buf) + Len(res.item.bytes) > Unwrap(this.length)
        THEN [this |-> this, pos |-> p + 1, out |-> Err("Overflow")]
        ELSE poll_loop_declared([this EXCEPT !.buf = @ \o res.item.bytes], p + 1)
    ELSE [this |-> [this EXCEPT !.buf = <<>>], pos |-> p, out |-> Ok(this.buf)]

\* the loop of poll: pulls items until the stream is pending, ends or fails
RECURSIVE poll_loop(_, _)
poll_loop(this, p) ==
    LET res == poll_next(this.stream, p) IN
    IF res.tag = "Pending" THEN [this |-> this, pos |-> p, out |-> Pending]
    ELSE IF res.tag = "Some" THEN
        IF res.item.type = "err"
        THEN [this |-> this, pos |-> p + 1, out |-> Err(res.item.e)]
        ELSE IF Len(this.buf) + Len(res.item.bytes) > this.limit
        THEN [this |-> this, pos |-> p + 1, out |-> Err("Overflow")]
        ELSE poll_loop([this EXCEPT !.buf = @ \o res.item.bytes], p + 1)
    ELSE [this |-> [this EXCEPT !.buf = <<>>], pos |-> p, out |-> Ok(this.buf)]

HttpMessageBody_poll(this, p) ==
    IF IsSome(this.err)
    THEN [this |-> [this EXCEPT !.err = None], pos |-> p, out |-> Err(Unwrap(this.err))]
    ELSE poll_loop(this, p)

----------------------------------------------------------------------------
(* Decoding *)

\* str::from_utf8 over the bytes of the model: 'a' is itself, 0xC3 0xA9 is
\* U+00E9, a lone 0xC3 or 0xA9 is invalid
RECURSIVE from_utf8(_)
from_utf8(b) ==
    IF b = <<>> THEN Ok(<<>>)
    ELSE IF Head(b) < 128 THEN
        LET rest == from_utf8(Tail(b)) IN
        IF rest.tag = "Ok" THEN Ok(<<Head(b)>> \o rest.val) ELSE rest
    ELSE IF Head(b) = 195 /\ Len(b) >= 2 /\ b[2] \in 128..191 THEN
        LET rest == from_utf8(Tail(Tail(b))) IN
        IF rest.tag = "Ok" THEN Ok(<<(195 - 192) * 64 + (b[2] - 128)>> \o rest.val) ELSE rest
    ELSE Err("Utf8Error")

\* UTF-16LE: pairs of bytes, low byte first; an odd byte at the end is
\* malformed (no byte of the model makes a surrogate)
RECURSIVE decode_utf16le(_)
decode_utf16le(b) ==
    IF b = <<>> THEN Ok(<<>>)
    ELSE IF Len(b) = 1 THEN Err("malformed")
    ELSE LET rest == decode_utf16le(Tail(Tail(b))) IN
         IF rest.tag = "Ok" THEN Ok(<<b[1] + 256 * b[2]>> \o rest.val) ELSE rest

\* the encodings of the model other than UTF-8: UTF-16LE alone
decode_without_bom_handling_and_without_replacement(enc, b) == decode_utf16le(b)

bytes_to_string(body, enc) ==
    IF enc = UTF_8 THEN
        LET r == from_utf8(body) IN
        IF r.tag = "Ok" THEN r ELSE Err("BadRequest: Can not decode body")
    ELSE
        LET r == decode_without_bom_handling_and_without_replacement(enc, body) IN
        IF r.tag = "Ok" THEN r ELSE Err("BadRequest: Can not decode body")

----------------------------------------------------------------------------
(* The futures the extractors return *)

NoBody == [stream |-> "None", limit |-> 0, length |-> None, buf |-> <<>>, err |-> None]

\* kind: which extractor made it ("Body": HttpMessageBody::new called directly)
\* side: "Left" wraps an aggregator, "Right" is a Ready value
\* out: the first Ready result, last: the result of the latest poll
\* polled: polled at least once, armed: the first poll found a latched error
\* repolls: polls after the first Ready, npulled: items it pulled from the
\* chunk source, lastpulled: items its latest poll pulled, nlimit: calls of
\* limit, late: limit was called after a poll
Fut(kind, side, ready, body, enc) ==
    [kind |-> kind, side |-> side, ready |-> ready, body |-> body, encoding |-> enc,
     out |-> Pending, last |-> Pending, polled |-> FALSE, repolls |-> 0,
     armed |-> FALSE, npulled |-> 0, lastpulled |-> 0, nlimit |-> 0, late |-> FALSE]

\* from_request of Payload, but the request's handle keeps its stream
Payload_from_request_shared(r, pl) ==
    [fut |-> [Fut("Payload", "Right", Ok(<<>>), [NoBody EXCEPT !.stream = pl], UTF_8)
                EXCEPT !.out = Ok(<<>>), !.last = Ok(<<>>)],
     payload |-> pl]

\* <Payload as FromRequest>::from_request
Payload_from_request(r, pl) ==
    LET t == take(pl) IN
    [fut |-> [Fut("Payload", "Right", Ok(<<>>), [NoBody EXCEPT !.stream = t.taken], UTF_8)
                EXCEPT !.out = Ok(<<>>), !.last = Ok(<<>>)],
     payload |-> t.left]

\* from_request of Bytes, but the aggregator is made before the media type
\* is checked
Bytes_from_request_eager(r, pl) ==
    LET cfg == from_req(r)
        chk == check_mimetype(cfg, r)
        n == HttpMessageBody_new(r, pl) IN
    IF chk.tag = "Err"
    THEN [fut |-> Fut("Bytes", "Right", chk, NoBody, UTF_8), payload |-> n.payload]
    ELSE [fut |-> Fut("Bytes", "Left", Pending,
                      HttpMessageBody_limit(n.body, cfg.limit), UTF_8),
          payload |-> n.payload]

\* <Bytes as FromRequest>::from_request
Bytes_from_request(r, pl) ==
    LET cfg == from_req(r)
        chk == check_mimetype(cfg, r) IN
    IF chk.tag = "Err"
    THEN [fut |-> Fut("Bytes", "Right", chk, NoBody, UTF_8), payload |-> pl]
    ELSE LET n == HttpMessageBody_new(r, pl) IN
         [fut |-> Fut("Bytes", "Left", Pending,
                      HttpMessageBody_limit(n.body, cfg.limit), UTF_8),
          payload |-> n.payload]

\* from_request of String, but the charset is resolved before the media
\* type is checked
String_from_request_charset_first(r, pl) ==
    LET cfg == from_req(r)
        chk == check_mimetype(cfg, r)
        enc == encoding(r) IN
    IF enc.tag = "Err"
    THEN [fut |-> Fut("String", "Right", enc, NoBody, UTF_8), payload |-> pl]
    ELSE IF chk.tag = "Err"
    THEN [fut |-> Fut("String", "Right", chk, NoBody, UTF_8), payload |-> pl]
    ELSE LET n == HttpMessageBody_new(r, pl) IN
         [fut |-> Fut("String", "Left", Pending,
                      HttpMessageBody_limit(n.body, cfg.limit), enc.val),
          payload |-> n.payload]

\* <String as FromRequest>::from_request
String_from_request(r, pl) ==
    LET cfg == from_req(r)
        chk == check_mimetype(cfg, r)
        enc == encoding(r) IN
    IF chk.tag = "Err"
    THEN [fut |-> Fut("String", "Right", chk, NoBody, UTF_8), payload |-> pl]
    ELSE IF enc.tag = "Err"
    THEN [fut |-> Fut("String", "Right", enc, NoBody, UTF_8), payload |-> pl]
    ELSE LET n == HttpMessageBody_new(r, pl) IN
         [fut |-> Fut("String", "Left", Pending,
                      HttpMessageBody_limit(n.body, cfg.limit), enc.val),
          payload |-> n.payload]

\* poll of StringExtractFut, but what is buffered is decoded at every poll
StringExtractFut_poll_eager(self, p) ==
    LET res == HttpMessageBody_poll(self.body, p) IN
    [res EXCEPT !.out = IF res.out.tag = "Ok"
                        THEN bytes_to_string(res.out.val, self.encoding)
                        ELSE IF bytes_to_string(res.this.buf, self.encoding).tag = "Err"
                        THEN bytes_to_string(res.this.buf, self.encoding)
                        ELSE res.out]

\* StringExtractFut::poll
StringExtractFut_poll(self, p) ==
    LET res == HttpMessageBody_poll(self.body, p) IN
    [res EXCEPT !.out = IF res.out.tag = "Ok"
                        THEN bytes_to_string(res.out.val, self.encoding)
                        ELSE res.out]

\* the poll of the future f: the aggregator's state after it, the position
\* of the source and the output
Fut_poll(f, p) ==
    IF f.side = "Right" THEN [this |-> f.body, pos |-> p, out |-> f.ready]
    ELSE IF f.kind = "String" THEN StringExtractFut_poll(f, p)
    ELSE HttpMessageBody_poll(f.body, p)

----------------------------------------------------------------------------
(* Inputs *)

\* the chunks of the enumerated streams are not empty
Chunks == UNION {[1..n -> ByteSet] : n \in 1..MaxLen}
ItemSet == {Data(c) : c \in Chunks} \cup {Fail("Incomplete")}

NumErrors(s) == Cardinality({i \in 1..Len(s) : s[i].type = "err"})

IsStream(s) == Len(Concat(s, Len(s))) <= MaxLen /\ NumErrors(s) <= 1

\* the streams of n items: chunks with at most MaxLen bytes in all and at
\* most one transport error, at any place
RECURSIVE StreamsOf(_)
StreamsOf(n) ==
    IF n = 0 THEN {<<>>}
    ELSE LET longer == {Append(s, x) : s \in StreamsOf(n - 1), x \in ItemSet}
         IN {s \in longer : IsStream(s)}

Streams == UNION {StreamsOf(n) : n \in 0..(MaxLen + 1)}

\* a few streams: empty, text cut inside a character, undecodable bytes,
\* an empty chunk, four bytes, a transport error first and after a chunk
FewStreams ==
    {<<>>,
     <<Data(<<97, 195>>), Data(<<169>>)>>,
     <<Data(<<195>>), Data(<<97, 97>>)>>,
     <<Data(<<97>>), Data(<<>>), Data(<<195>>)>>,
     <<Data(<<97>>), Data(<<195, 169>>), Data(<<97>>)>>,
     <<Fail("Incomplete"), Data(<<97>>)>>,
     <<Data(<<169, 97>>), Fail("Io")>>}

TwoStreams == {<<>>, <<Data(<<97, 195>>), Data(<<169>>)>>}

BigLength == 1000000

\* the limits handed to HttpMessageBody::limit and PayloadConfig
LimitSet == {0, 2, DEFAULT_CONFIG_LIMIT, BigLength}

\* Content-Length header values
LengthHeaders ==
    {None,
     Some(<<"x", "x", "x", "x">>), Some(<<"OBS">>), Some(<<"-", "1">>), Some(<<>>),
     Some(<<"+", "2">>), Some(<<"0">>), Some(<<"3">>),
     Some(<<"2", "6", "2", "1", "4", "4">>), Some(<<"2", "6", "2", "1", "4", "5">>),
     Some(<<"1", "0", "0", "0", "0", "0", "0">>), Some(<<"1", "0", "0", "0", "0", "0", "1">>)}

FewLengthHeaders ==
    {None, Some(<<"x", "x", "x", "x">>), Some(<<"3">>),
     Some(<<"1", "0", "0", "0", "0", "0", "0">>)}

TEXT_PLAIN == Mime("text/plain", "none")

NoContentType == [state |-> "absent", mime |-> TEXT_PLAIN]

ContentTypes ==
    {NoContentType, [state |-> "malformed", mime |-> TEXT_PLAIN]}
    \cup {[state |-> "ok", mime |-> Mime(e, c)] :
            e \in {"application/json", "text/plain"},
            c \in {"none", UTF_16LE, "bogus"}}

TEXT_UTF16 == Mime("text/plain", UTF_16LE)

FewContentTypes ==
    {NoContentType, [state |-> "malformed", mime |-> TEXT_PLAIN],
     [state |-> "ok", mime |-> TEXT_UTF16],
     [state |-> "ok", mime |-> Mime("text/plain", "bogus")]}

Configs ==
    {PayloadConfig(l, m) : l \in {2, DEFAULT_CONFIG_LIMIT},
                           m \in {None, Some(APPLICATION_JSON)}}

OptConfigs == {None} \cup {Some(c) : c \in Configs}

Request(cl, ct, direct, data) ==
    [content_length |-> cl, content_type |-> ct, app_data |-> direct, data |-> data]

----------------------------------------------------------------------------
(* Actions *)

\* the transport delivers its next item, or the end of the stream
Arrive ==
    /\ arrived <= Len(items)
    /\ arrived' = arrived + 1
    /\ UNCHANGED <<req, items, pos, payload, futs>>

ExtractPayload ==
    /\ Len(futs) < MaxFuts
    /\ LET r == Payload_from_request(req, payload) IN
        /\ futs' = Append(futs, r.fut)
        /\ payload' = r.payload
    /\ UNCHANGED <<req, items, arrived, pos>>

ExtractBytes ==
    /\ Len(futs) < MaxFuts
    /\ LET r == Bytes_from_request(req, payload) IN
        /\ futs' = Append(futs, r.fut)
        /\ payload' = r.payload
    /\ UNCHANGED <<req, items, arrived, pos>>

ExtractString ==
    /\ Len(futs) < MaxFuts
    /\ LET r == String_from_request(req, payload) IN
        /\ futs' = Append(futs, r.fut)
        /\ payload' = r.payload
    /\ UNCHANGED <<req, items, arrived, pos>>

RECURSIVE SumOf(_, _)
SumOf(field, n) == IF n = 0 THEN 0 ELSE SumOf(field, n - 1) + futs[n][field]

\* HttpMessageBody::limit on an aggregator the application holds
BodyLimit(i, n) ==
    /\ futs[i].kind = "Body"
    /\ SumOf("nlimit", Len(futs)) < MaxLimitCalls
    /\ futs' = [futs EXCEPT ![i] =
                 [@ EXCEPT !.body = HttpMessageBody_limit(@, n),
                           !.nlimit = @ + 1,
                           !.late = @ \/ futs[i].polled]]
    /\ UNCHANGED <<req, items, arrived, pos, payload>>

\* one poll of a future that is not a raw payload.  A Ready value and the
\* ErrInto of the Bytes extractor are polled until they return Ready (a
\* later poll panics); HttpMessageBody and StringExtractFut have no such
\* guard and may be polled again
Poll(i) ==
    /\ futs[i].kind # "Payload"
    /\ \/ futs[i].out.tag = "Pending"
       \/ /\ futs[i].side = "Left"
          /\ futs[i].kind \in {"Body", "String"}
          /\ SumOf("repolls", Len(futs)) < MaxRepoll
    /\ LET f == futs[i]
           r == Fut_poll(f, pos) IN
        /\ futs' = [futs EXCEPT ![i] =
                     [f EXCEPT !.body = r.this,
                               !.out = IF f.out.tag = "Pending" THEN r.out ELSE @,
                               !.last = r.out,
                               !.polled = TRUE,
                               !.armed = IF f.polled THEN @ ELSE IsSome(f.body.err),
                               !.repolls = IF f.out.tag = "Pending" THEN @ ELSE @ + 1,
                               !.npulled = @ + (r.pos - pos),
                               !.lastpulled = r.pos - pos]]
        /\ pos' = r.pos
    /\ UNCHANGED <<req, items, arrived, payload>>

\* <Payload as Stream>::poll_next by the holder of a raw payload, when it
\* yields an item
PayloadPollNext(i) ==
    /\ futs[i].kind = "Payload"
    /\ LET res == poll_next(futs[i].body.stream, pos) IN
        /\ res.tag = "Some"
        /\ futs' = [futs EXCEPT ![i].npulled = @ + 1, ![i].lastpulled = 1]
        /\ pos' = pos + 1
    /\ UNCHANGED <<req, items, arrived, payload>>

----------------------------------------------------------------------------
(* The extractors on one request: Payload, Bytes and String *)

Init ==
    /\ \/ /\ items \in TwoStreams
          /\ req \in {Request(None, ct, direct, data) :
                         ct \in ContentTypes, direct \in OptConfigs, data \in OptConfigs}
       \/ /\ items \in FewStreams
          /\ req \in {Request(cl, ct, direct, None) :
                         cl \in FewLengthHeaders, ct \in FewContentTypes,
                         direct \in {None, Some(PayloadConfig(2, Some(TEXT_UTF16)))}}
    /\ arrived = 0
    /\ pos = 0
    /\ payload = "Stream"
    /\ futs = <<>>

Next ==
    \/ Arrive
    \/ ExtractPayload
    \/ ExtractBytes
    \/ ExtractString
    \/ \E i \in 1..Len(futs) : Poll(i)
    \/ \E i \in 1..Len(futs) : PayloadPollNext(i)

Spec == Init /\ [][Next]_vars

----------------------------------------------------------------------------
(* One aggregator made by the application: HttpMessageBody::new, then      *)
(* limit and poll                                                          *)

InitBody ==
    /\ \/ /\ items \in Streams
          /\ req \in {Request(cl, NoContentType, None, None) :
                         cl \in {None}}
       \/ /\ items \in FewStreams
          /\ req \in {Request(cl, NoContentType, None, None) : cl \in LengthHeaders}
    /\ arrived = 0
    /\ pos = 0
    /\ LET n == HttpMessageBody_new(req, "Stream") IN
        /\ futs = <<Fut("Body", "Left", Pending, n.body, UTF_8)>>
        /\ payload = n.payload

NextBody ==
    \/ Arrive
    \/ \E i \in 1..Len(futs), n \in LimitSet : BodyLimit(i, n)
    \/ \E i \in 1..Len(futs) : Poll(i)

SpecBody == InitBody /\ [][NextBody]_vars

----------------------------------------------------------------------------
(* One aggregator under a transport that delivers every item and the end   *)
(* of the stream, and a task that is polled again while it is pending      *)

InitLive ==
    /\ items \in FewStreams
    /\ req \in {Request(cl, NoContentType, None, None) : cl \in FewLengthHeaders}
    /\ arrived = 0
    /\ pos = 0
    /\ LET n == HttpMessageBody_new(req, "Stream") IN
        /\ futs = <<Fut("Body", "Left", Pending, n.body, UTF_8)>>
        /\ payload = n.payload

SpecLive ==
    /\ InitLive
    /\ [][NextBody]_vars
    /\ WF_vars(Arrive)
    /\ WF_vars(\E i \in 1..Len(futs) : Poll(i))

----------------------------------------------------------------------------
(* Properties of the aggregator (SpecBody) *)

\* all the bytes of the stream
Whole == Concat(items, Len(items))

\* the first item at which the bytes so far number more than limit
FirstOver(limit) ==
    CHOOSE k \in 1..Len(items) :
        /\ Len(Concat(items, k)) > limit
        /\ \A j \in 1..(k - 1) : Len(Concat(items, j)) <= limit

Bodies == {i \in 1..Len(futs) : futs[i].kind = "Body"}

\* the aggregator was configured before its first poll and found no
\* latched error then
Plain(f) == ~f.late /\ ~f.armed

\* C1: a body of at most limit bytes, delivered as data chunks in any split
\* and followed by the end of the stream, is returned whole by an
\* aggregator without latched error
C1_ChunkingInvariance ==
    \A i \in Bodies :
        LET f == futs[i] IN
        (/\ Plain(f)
         /\ NumErrors(items) = 0
         /\ Len(Whole) <= f.body.limit
         /\ f.out.tag # "Pending")
        => f.out = Ok(Whole)

\* a body of two bytes in two chunks or more came back whole under limit 2
C1_Witness ==
    \E i \in Bodies :
        /\ Plain(futs[i])
        /\ futs[i].body.limit = 2
        /\ Len(Whole) = 2
        /\ Len(items) >= 2
        /\ Whole[1] # Whole[2]
        /\ futs[i].npulled = Len(items)
        /\ futs[i].out = Ok(Whole)

\* C2: a body of more than limit bytes, delivered as data chunks, fails with
\* Overflow at the first chunk that takes the count above limit: that chunk
\* is not appended and nothing after it is pulled
C2_OverflowAtFirstExcess ==
    \A i \in Bodies :
        LET f == futs[i]
            k == FirstOver(f.body.limit) IN
        (/\ Plain(f)
         /\ NumErrors(items) = 0
         /\ Len(Whole) > f.body.limit
         /\ f.repolls = 0)
        => /\ f.npulled <= k
           /\ f.out.tag # "Pending" =>
                /\ f.out = Err("Overflow")
                /\ f.npulled = k
                /\ f.body.buf = Concat(items, k - 1)

\* Overflow at the second of three chunks, the third one arrived but not pulled
C2_Witness ==
    \E i \in Bodies :
        /\ Plain(futs[i])
        /\ NumErrors(items) = 0
        /\ Len(items) = 3
        /\ arrived > Len(items)
        /\ futs[i].body.limit = 2
        /\ futs[i].out = Err("Overflow")
        /\ futs[i].npulled = 2
        /\ Len(futs[i].body.buf) > 0

\* C3: a Content-Length that parses to more than the limit in force (the
\* default, or the last value given to limit) makes the first poll return
\* Overflow with nothing pulled, whatever the stream holds
C3_DeclaredOverflow ==
    \A i \in Bodies :
        LET f == futs[i] IN
        (/\ ~f.late
         /\ IsSome(f.body.length)
         /\ Unwrap(f.body.length) > f.body.limit
         /\ f.polled)
        => /\ f.out = Err("Overflow")
           /\ f.repolls = 0 => f.npulled = 0 /\ pos = 0

\* Content-Length 1000000 under the default limit: Overflow although the
\* first item, a transport error, had arrived
C3_Witness ==
    \E i \in Bodies :
        /\ futs[i].nlimit = 0
        /\ futs[i].body.length = Some(BigLength)
        /\ futs[i].body.limit = DEFAULT_CONFIG_LIMIT
        /\ arrived >= 1
        /\ Len(items) >= 1
        /\ items[1].type = "err"
        /\ futs[i].out = Err("Overflow")
        /\ futs[i].npulled = 0

\* what str::parse::<usize> accepts: digits, or "+" and digits
ValidUnsigned(l) ==
    LET d == IF l # <<>> /\ Head(l) = "+" THEN Tail(l) ELSE l IN
    /\ d # <<>>
    /\ \A j \in 1..Len(d) : d[j] \in {"0", "1", "2", "3", "4", "5", "6", "7", "8", "9"}

\* C4: a Content-Length header that is no unsigned integer makes the first
\* poll return UnknownLength with nothing pulled, whatever limit was called
\* with before
C4_UnknownLength ==
    \A i \in Bodies :
        LET f == futs[i] IN
        (/\ ~f.late
         /\ IsSome(req.content_length)
         /\ ~ValidUnsigned(Unwrap(req.content_length))
         /\ f.polled)
        => /\ f.out = Err("UnknownLength")
           /\ f.repolls = 0 => f.npulled = 0 /\ pos = 0

\* UnknownLength after two calls of limit, with data waiting
C4_Witness ==
    \E i \in Bodies :
        /\ req.content_length = Some(<<"x", "x", "x", "x">>)
        /\ futs[i].nlimit = 2
        /\ ~futs[i].late
        /\ arrived >= 1
        /\ Len(items) >= 1
        /\ futs[i].out = Err("UnknownLength")
        /\ futs[i].npulled = 0

\* C5: after limit(n), and before the first poll, Overflow is latched
\* exactly when a declared length is known and is more than n
C5_LimitRearms ==
    \A i \in Bodies :
        LET f == futs[i] IN
        (f.nlimit >= 1 /\ ~f.polled)
        => /\ f.body.err = Some("Overflow")
                <=> (IsSome(f.body.length) /\ Unwrap(f.body.length) > f.body.limit)
           /\ IsSome(f.body.length)
                <=> (IsSome(req.content_length) /\ ValidUnsigned(Unwrap(req.content_length)))

\* a declared length above the default, latched by new, is cleared by a
\* second call of limit that follows one that kept it latched
C5_Witness ==
    \E i \in Bodies :
        /\ futs[i].nlimit = 2
        /\ ~futs[i].polled
        /\ futs[i].body.length = Some(BigLength)
        /\ futs[i].body.limit = BigLength
        /\ futs[i].body.err = None

----------------------------------------------------------------------------
(* Properties of the extractors (Spec) *)

\* the request's media type parses and is the one cfg requires, if any
Accepts(cfg, r) ==
    IsSome(cfg.mimetype) =>
        /\ r.content_type.state = "ok"
        /\ r.content_type.mime = Unwrap(cfg.mimetype)

\* the policy of the request: stored directly, else inside Data, else the
\* default of 262144 bytes and no media type
Policy ==
    IF req.app_data # None THEN req.app_data[1]
    ELSE IF req.data # None THEN req.data[1]
    ELSE [limit |-> 262144, mimetype |-> None]

\* the error of a refused media type
MimetypeError ==
    IF req.content_type.state = "absent" THEN "BadRequest: Content-Type is expected"
    ELSE IF req.content_type.state = "malformed" THEN "ContentTypeError::ParseError"
    ELSE "BadRequest: Unexpected Content-Type"

Buffered == {i \in 1..Len(futs) : futs[i].kind \in {"Bytes", "String"}}

\* C6: with a required media type, check_mimetype passes exactly when the
\* request's media type parses and equals it; without one it always passes
C6_CheckMimetype ==
    \A i \in 1..Len(futs) :
        futs[i].kind = "Bytes" =>
            /\ futs[i].side = "Left" <=> Accepts(from_req(req), req)
            /\ futs[i].side = "Right" => futs[i].ready = Err(MimetypeError)

\* a Bytes extraction went on to the aggregator under a required media type
C6_Witness ==
    \E i \in 1..Len(futs) :
        /\ futs[i].kind = "Bytes"
        /\ IsSome(from_req(req).mimetype)
        /\ futs[i].side = "Left"
        /\ futs[i].out.tag = "Ok"

\* C7: when the media type is refused, Bytes and String extraction are Ready
\* with that error: no aggregator is made, no item is pulled and, as long
\* as no raw Payload is extracted, the request's handle keeps the source
C7_MimetypeFailureLeavesStream ==
    ~Accepts(Policy, req) =>
        /\ \A i \in Buffered :
                /\ futs[i].side = "Right"
                /\ futs[i].ready = Err(MimetypeError)
                /\ futs[i].body = NoBody
                /\ futs[i].npulled = 0
                /\ futs[i].out \in {Pending, Err(MimetypeError)}
        /\ Buffered = 1..Len(futs) => payload = "Stream" /\ pos = 0

\* Bytes and String both failed on a missing Content-Type while the body
\* had arrived, and the request still holds it
C7_Witness ==
    /\ Len(futs) = 2
    /\ {futs[1].kind, futs[2].kind} = {"Bytes", "String"}
    /\ futs[1].out = Err("BadRequest: Content-Type is expected")
    /\ futs[2].out = Err("BadRequest: Content-Type is expected")
    /\ Len(items) >= 2
    /\ arrived > Len(items)
    /\ payload = "Stream"

\* C8: the policy applied by Bytes and String is the directly stored
\* PayloadConfig, else the one inside Data, else the default
C8_ConfigPriority ==
    \A i \in Buffered :
        /\ futs[i].side = "Left" => futs[i].body.limit = Policy.limit
        /\ futs[i].side = "Left" => Accepts(Policy, req)
        /\ ~Accepts(Policy, req) => futs[i].side = "Right"

\* both kinds of config are stored and differ in limit and media type; the
\* direct one was applied
C8_Witness ==
    \E i \in Buffered :
        /\ IsSome(req.app_data)
        /\ IsSome(req.data)
        /\ Unwrap(req.app_data).limit # Unwrap(req.data).limit
        /\ ~Accepts(Unwrap(req.data), req)
        /\ futs[i].side = "Left"
        /\ futs[i].body.limit = Unwrap(req.app_data).limit

Holders ==
    Cardinality({i \in 1..Len(futs) : futs[i].body.stream = "Stream"})
    + (IF payload = "Stream" THEN 1 ELSE 0)

\* C9: the chunk source has one holder; raw Payload extraction succeeds
\* under every policy and empties the request's handle; every item pulled
\* went to one consumer; an extraction made after the source was taken
\* pulls nothing and sees an empty body
C9_SingleHolder ==
    /\ Holders = 1
    /\ SumOf("npulled", Len(futs)) = pos
    /\ \A i \in 1..Len(futs) :
        LET f == futs[i] IN
        /\ f.kind = "Payload" => f.out.tag = "Ok" /\ payload = "None"
        /\ f.side = "Left" => payload = "None"
        /\ f.body.stream = "None" => f.npulled = 0
        /\ (f.side = "Left" /\ f.body.stream = "None" /\ f.polled /\ ~f.armed)
                => f.out = Ok(<<>>)

\* a raw Payload was extracted under a policy that refuses the request and
\* pulled the whole body; a later raw Payload pulled nothing
C9_Witness ==
    /\ Len(futs) = 2
    /\ ~Accepts(Policy, req)
    /\ futs[1].kind = "Payload"
    /\ futs[1].npulled = Len(items)
    /\ Len(items) >= 2
    /\ futs[2].kind = "Payload"
    /\ futs[2].body.stream = "None"

\* a String extraction made after a raw Payload returned the empty string
C9_WitnessLate ==
    /\ Len(futs) = 2
    /\ futs[1].kind = "Payload"
    /\ futs[1].npulled >= 1
    /\ futs[2].kind = "String"
    /\ futs[2].side = "Left"
    /\ futs[2].out = Ok(<<>>)

DecodeError == "BadRequest: Can not decode body"

\* the aggregator of f has drained the whole body, within the limit
Drained(f) ==
    /\ ~f.armed
    /\ \/ f.body.stream = "None"
       \/ /\ arrived = Len(items) + 1
          /\ f.npulled = Len(items)
          /\ NumErrors(items) = 0
          /\ Len(Whole) <= f.body.limit

\* C10: String extraction decodes only after its aggregator has succeeded:
\* a result that is Ok or a decode error comes after the whole body was
\* drained within the limit, and any earlier result is the aggregator's
\* failure, whatever the bytes received
C10_DecodeAfterAggregation ==
    \A i \in 1..Len(futs) :
        LET f == futs[i] IN
        (f.kind = "String" /\ f.side = "Left" /\ f.out.tag # "Pending") =>
            /\ (f.out.tag = "Ok" \/ f.out.err = DecodeError) => Drained(f)
            /\ ~Drained(f) =>
                    f.out.err \in {"Overflow", "UnknownLength"} \cup TransportErrors
            /\ f.armed => f.out.err \in {"Overflow", "UnknownLength"}

\* Overflow in the middle of the stream although the bytes buffered were
\* no valid UTF-8
C10_Witness ==
    \E i \in 1..Len(futs) :
        /\ futs[i].kind = "String"
        /\ futs[i].encoding = UTF_8
        /\ futs[i].out = Err("Overflow")
        /\ futs[i].npulled = 2
        /\ from_utf8(futs[i].body.buf).tag = "Err"

\* a decode error after the body was drained
C10_WitnessDecode ==
    \E i \in 1..Len(futs) :
        /\ futs[i].kind = "String"
        /\ futs[i].out = Err(DecodeError)
        /\ futs[i].npulled = Len(items)
        /\ Len(items) >= 2

----------------------------------------------------------------------------
(* Properties of polls and of polls after completion (SpecBody) *)

\* C11: once a poll of the aggregator has returned an error, a later poll
\* pulls nothing from the source and does not return Ok
C11_ErrorIsTerminal ==
    \A i \in Bodies :
        (futs[i].out.tag = "Err" /\ futs[i].repolls >= 1)
        => futs[i].lastpulled = 0 /\ futs[i].last.tag # "Ok"

Min(a, b) == IF a <= b THEN a ELSE b

\* C12 as stated: a poll of the aggregator pulls one item at most, and none
\* when an error is latched
C12_OneChunkPerPoll ==
    \A i \in Bodies :
        /\ futs[i].lastpulled <= 1
        /\ (futs[i].armed /\ futs[i].repolls = 0) => futs[i].npulled = 0

\* C12: a poll that finds a latched error returns it and pulls nothing; any
\* other poll pulls, in order, every item that has arrived, one or several,
\* until the source is pending or at its end (the result is then Pending or
\* Ok) or an item fails or overflows (the result is then that error)
C12_PollPullsReady ==
    [][\A i \in Bodies :
        Poll(i) =>
            LET f == futs[i]
                g == futs'[i] IN
            IF IsSome(f.body.err)
            THEN pos' = pos /\ g.last = Err(Unwrap(f.body.err))
            ELSE /\ g.lastpulled = pos' - pos
                 /\ g.last.tag = "Pending" => pos' = Min(arrived, Len(items))
                 /\ g.last.tag = "Ok" => pos' = Len(items) /\ arrived > Len(items)
                 /\ g.last.tag = "Err" =>
                        /\ pos' > pos
                        /\ pos' <= arrived
                        /\ \/ items[pos'].type = "err"
                           \/ Len(f.body.buf \o Concat(items, pos'))
                                - Len(Concat(items, pos)) > f.body.limit
                 /\ \A j \in (pos + 1)..(pos' - 1) : items[j].type = "data"]_vars

\* one poll pulled three items, the last of them a failed one
C12_Witness ==
    \E i \in Bodies :
        /\ futs[i].lastpulled = 3
        /\ futs[i].npulled = 3
        /\ futs[i].last.tag = "Err"
        /\ items[3].type = "err"

\* a latched error was returned with items waiting, none of them pulled
C12_WitnessLatched ==
    \E i \in Bodies :
        /\ futs[i].armed
        /\ futs[i].repolls = 0
        /\ futs[i].npulled = 0
        /\ arrived >= 2
        /\ Len(items) >= 2

\* C13: a transport error as item k, with the chunks before it within the
\* limit and no latched error, ends the aggregation at item k with that
\* error as it is: nothing is returned of the chunks before it, no item
\* after it is pulled, and a buffer that is at the limit changes nothing
C13_TransportError ==
    \A i \in Bodies :
        \A k \in 1..Len(items) :
            LET f == futs[i] IN
            (/\ Plain(f)
             /\ f.repolls = 0
             /\ items[k].type = "err"
             /\ Len(Concat(items, k - 1)) <= f.body.limit)
            => /\ f.npulled <= k
               /\ f.npulled = k <=> f.out.tag # "Pending"
               /\ f.out.tag # "Pending" =>
                    /\ f.out = Err(items[k].e)
                    /\ f.body.buf = Concat(items, k - 1)

\* a transport error reported with the buffer at the limit of 2 bytes, and
\* an item behind it that arrived and was not pulled
C13_Witness ==
    \E i \in Bodies :
        /\ Plain(futs[i])
        /\ futs[i].repolls = 0
        /\ futs[i].body.limit = 2
        /\ Len(futs[i].body.buf) = 2
        /\ futs[i].out = Err("Incomplete")
        /\ futs[i].npulled < Len(items)
        /\ arrived > futs[i].npulled

\* C15: up to its first Ready result the aggregator's buffer is the
\* concatenation, in arrival order, of the chunks it pulled and accepted,
\* each one once: all items pulled while it is pending, all but the refused
\* one after an error found in the stream (all of them after a latched
\* one); on success these bytes are the result and the buffer is handed over
C15_BufferIsConcatenation ==
    \A i \in Bodies :
        LET f == futs[i] IN
        f.repolls = 0 =>
            /\ f.out.tag = "Pending" => f.body.buf = Concat(items, f.npulled)
            /\ f.out.tag = "Err" =>
                    f.body.buf = Concat(items, IF f.lastpulled = 0 THEN f.npulled
                                               ELSE f.npulled - 1)
            /\ f.out.tag = "Ok" =>
                    /\ f.out.val = Concat(items, f.npulled)
                    /\ f.npulled = Len(items)
                    /\ f.body.buf = <<>>

\* three chunks of which the first differs from the second are buffered in
\* order after two polls or more, the aggregator still pending
C15_Witness ==
    \E i \in Bodies :
        /\ futs[i].out.tag = "Pending"
        /\ futs[i].npulled = 3
        /\ futs[i].lastpulled < 3
        /\ futs[i].lastpulled > 0
        /\ Len(futs[i].body.buf) = 3
        /\ futs[i].body.buf[1] # futs[i].body.buf[2]

\* C17: with limit called only before the first poll, the buffer never
\* holds more than limit bytes, and neither does a value returned with Ok
C17_BufferWithinLimit ==
    \A i \in Bodies :
        LET f == futs[i] IN
        ~f.late =>
            /\ Len(f.body.buf) <= f.body.limit
            /\ f.out.tag = "Ok" => Len(f.out.val) <= f.body.limit
            /\ f.last.tag = "Ok" => Len(f.last.val) <= f.body.limit

\* the buffer is at the limit of 2 bytes after a chunk that would have
\* taken it above was refused
C17_Witness ==
    \E i \in Bodies :
        /\ ~futs[i].late
        /\ futs[i].nlimit >= 1
        /\ futs[i].body.limit = 2
        /\ Len(futs[i].body.buf) = 2
        /\ futs[i].out = Err("Overflow")
        /\ futs[i].npulled >= 2

\* the first Ready result of an aggregator with the given limit and no
\* latched error, from the stream alone: the first failing item decides,
\* else the whole body
Outcome(limit) ==
    LET bad == {k \in 1..Len(items) :
                    \/ items[k].type = "err"
                    \/ Len(Concat(items, k)) > limit} IN
    IF bad = {} THEN Ok(Whole)
    ELSE LET k == CHOOSE j \in bad : \A h \in bad : j <= h IN
         IF items[k].type = "err" THEN Err(items[k].e) ELSE Err("Overflow")

\* C18: a Content-Length that parses to a value of at most the limit in
\* force changes nothing: the first Ready result is the one the stream
\* alone decides, as for a request without the header, be the body longer
\* or shorter than declared
C18_DeclaredLengthIgnored ==
    \A i \in Bodies :
        LET f == futs[i] IN
        (/\ ~f.late
         /\ f.polled
         /\ \/ ~IsSome(req.content_length)
            \/ /\ IsSome(f.body.length)
               /\ Unwrap(f.body.length) <= f.body.limit)
        => /\ ~f.armed
           /\ f.out \in {Pending, Outcome(f.body.limit)}
           /\ (f.out.tag = "Pending" /\ f.last.tag = "Pending") \/ f.out = Outcome(f.body.limit)

\* a body of 4 bytes under Content-Length 3 was returned whole
C18_Witness ==
    \E i \in Bodies :
        /\ futs[i].body.length = Some(3)
        /\ Len(Whole) = 4
        /\ futs[i].out = Ok(Whole)

\* a body of 2 bytes under Content-Length 3 was returned as delivered
C18_WitnessShort ==
    \E i \in Bodies :
        /\ futs[i].body.length = Some(3)
        /\ Len(Whole) = 2
        /\ futs[i].out = Ok(Whole)

----------------------------------------------------------------------------
(* Termination (SpecLive) *)

\* C16: when every item of the finite stream and then its end are
\* delivered, and the aggregator is polled again while it is pending, it
\* returns Ready in the end, and it returns Ok only when it has pulled every
\* item and seen the end of the stream
C16_EventuallyCompletes ==
    /\ <>(\A i \in Bodies : futs[i].out.tag # "Pending")
    /\ [](\A i \in Bodies :
            futs[i].out.tag = "Ok" => arrived > Len(items) /\ pos = Len(items))

\* an aggregator returned Ok after three items, pulled over two polls or more
C16_Witness ==
    \E i \in Bodies :
        /\ futs[i].out.tag = "Ok"
        /\ futs[i].repolls = 0
        /\ Len(items) = 3
        /\ futs[i].npulled = 3
        /\ futs[i].lastpulled < 3

----------------------------------------------------------------------------
(* Properties of the order of failures and of the source's owner (Spec) *)

\* the request names a charset that cannot be resolved: its Content-Type
\* is no media type, or the label is no encoding
CharsetError ==
    IF req.content_type.state = "malformed" THEN "ContentTypeError::ParseError"
    ELSE IF /\ req.content_type.state = "ok"
            /\ req.content_type.mime.charset \notin {"none", UTF_8, UTF_16LE}
    THEN "ContentTypeError::UnknownEncoding"
    ELSE "none"

\* the Content-Length of the request is no unsigned integer or is more than
\* the limit of the policy
BadLength ==
    /\ IsSome(req.content_length)
    /\ LET l == Unwrap(req.content_length) IN
        \/ ~ValidUnsigned(l)
        \/ parse_usize(l).val > Policy.limit

Strings == {i \in 1..Len(futs) : futs[i].kind = "String"}

\* C14: String extraction fails on the media type first, then on the
\* charset, then on the latched length error, then on the stream, then on
\* decoding.  The first two are Ready at once, make no aggregator, pull
\* nothing and, with no other extractor at work, leave the source in the
\* request; a latched error is returned with nothing pulled
C14_StringErrorOrder ==
    /\ \A i \in Strings :
        LET f == futs[i] IN
        /\ ~Accepts(Policy, req) =>
                f.side = "Right" /\ f.ready = Err(MimetypeError)
        /\ (Accepts(Policy, req) /\ CharsetError # "none") =>
                f.side = "Right" /\ f.ready = Err(CharsetError)
        /\ (Accepts(Policy, req) /\ CharsetError = "none") => f.side = "Left"
        /\ f.side = "Right" =>
                /\ f.body = NoBody
                /\ f.npulled = 0
                /\ f.out \in {Pending, f.ready}
        /\ (f.side = "Left" /\ BadLength /\ f.polled) =>
                /\ f.armed
                /\ f.out.err \in {"Overflow", "UnknownLength"}
                /\ f.repolls = 0 => f.npulled = 0
        /\ (f.side = "Left" /\ f.out.tag = "Err" /\ ~f.armed) =>
                \/ f.out.err \in {"Overflow"} \cup TransportErrors
                \/ f.out.err = DecodeError /\ Drained(f)
    /\ (Strings = 1..Len(futs) /\ \A i \in Strings : futs[i].side = "Right")
            => payload = "Stream" /\ pos = 0

\* media type, charset and Content-Length are all wrong: the media type is
\* reported, with the body waiting in the request
C14_Witness ==
    \E i \in Strings :
        /\ ~Accepts(Policy, req)
        /\ CharsetError = "ContentTypeError::UnknownEncoding"
        /\ BadLength
        /\ futs[i].out = Err("BadRequest: Unexpected Content-Type")
        /\ arrived >= 1
        /\ Strings = 1..Len(futs)
        /\ payload = "Stream"

\* charset and Content-Length are wrong: the charset is reported
C14_WitnessCharset ==
    \E i \in Strings :
        /\ Accepts(Policy, req)
        /\ BadLength
        /\ futs[i].out = Err("ContentTypeError::UnknownEncoding")
        /\ arrived >= 1
        /\ payload = "Stream"

\* C19: an extraction of Bytes or String that got as far as
\* HttpMessageBody::new has moved the source out of the request, also when
\* an error was latched: the request's handle is empty, the failed
\* extraction pulled nothing, and whatever is extracted later holds no
\* source.  Only when all extractions failed on the media type or the
\* charset does the request keep the source
C19_NewAlwaysTakesSource ==
    /\ \A i \in Buffered :
        LET f == futs[i] IN
        /\ f.side = "Left" => payload = "None"
        /\ (f.side = "Left" /\ BadLength /\ f.polled) =>
                /\ f.out.err \in {"Overflow", "UnknownLength"}
                /\ f.repolls = 0 => f.npulled = 0
                /\ \A j \in (i + 1)..Len(futs) :
                        futs[j].body.stream = "None" /\ futs[j].npulled = 0
        /\ f.side = "Right" <=> (~Accepts(Policy, req)
                                    \/ (f.kind = "String" /\ CharsetError # "none"))
    /\ (Buffered = 1..Len(futs) /\ Len(futs) > 0) =>
            (payload = "Stream" <=> \A i \in Buffered : futs[i].side = "Right")

\* Bytes failed on an unparseable Content-Length; the body has arrived and
\* not one item was pulled, and the raw Payload extracted next is empty
C19_Witness ==
    /\ Len(futs) = 2
    /\ futs[1].kind = "Bytes"
    /\ futs[1].out = Err("UnknownLength")
    /\ futs[2].kind = "Payload"
    /\ futs[2].body.stream = "None"
    /\ payload = "None"
    /\ Len(items) >= 2
    /\ arrived > Len(items)
    /\ pos = 0

====
